---- MODULE Spec2Model ----
(***************************************************************************)
(* A model of ezgl: the rectangle value type (include/ezgl/rectangle.hpp),  *)
(* the canvas and its GTK handlers (src/canvas.cpp) and the renderer's      *)
(* coordinate transform, clipping and drawing calls (src/graphics.cpp).     *)
(*                                                                         *)
(* Coordinates are C++ doubles in the program; the model uses integers, so  *)
(* it covers the arithmetic of finite, exactly representable values (no     *)
(* NaN, no infinity, no rounding).                                          *)
(***************************************************************************)
EXTENDS Integers, Sequences, FiniteSets

VARIABLES
  rect,      \* a rectangle object: its two stored corners m_first, m_second
  rcall,     \* the last operation applied to rect, with arguments and result
  m_drawing_area, \* canvas::m_drawing_area: "nullptr" or the widget "area"
  m_surface,      \* canvas::m_surface: 0 (nullptr) or the index of a surface
  surfaces,       \* every surface created so far: its size, whether destroyed
  contexts,       \* the cairo contexts that are live (created, not destroyed)
  alloc,          \* the drawing-area widget's current allocation (GTK state)
  connected,      \* the configure-event and draw signals are connected
  queued,         \* GTK has a redraw of the widget queued
  ctrace,         \* the library calls and callbacks made by the last handler
  chandler,       \* the last canvas handler: name, user data, return value
  current_coordinate_system, \* renderer: "WORLD" or "SCREEN"
  camera,         \* renderer::m_camera: world, screen, world scale factor
  m_transform,    \* renderer::m_transform: the world-to-screen function
  cairo_status,   \* the status of the renderer's cairo context m_cairo
  arg_p, arg_q, arg_r, \* the points the application passes to the drawing calls
  gcall,          \* the last renderer call and its remaining arguments
  gtrace          \* the cairo calls made by the last renderer call

rvars == <<rect, rcall>>

cvars == <<m_drawing_area, m_surface, surfaces, contexts, alloc, connected,
           queued, ctrace, chandler>>

gvars == <<current_coordinate_system, camera, m_transform, cairo_status,
           arg_p, arg_q, arg_r, gcall, gtrace>>

vars == <<rvars, cvars, gvars>>

(***************************************************************************)
(* Bounds                                                                  *)
(***************************************************************************)
\* rectangle corners and offsets range over -MaxRectCoord..MaxRectCoord
MaxRectCoord == 1

RectCoord == (0 - MaxRectCoord)..MaxRectCoord

\* widget allocations range over 1..MaxSize in each dimension
MaxSize == 2

\* at most MaxSurfaces surfaces are created in a run
MaxSurfaces == 3

\* the points of the drawing calls have coordinates in -1..MaxCoord
MaxCoord == 2

Coord == (0 - 1)..MaxCoord

\* the points of the text calls have coordinates in -1..MaxTextCoord
MaxTextCoord == 1

TextCoord == (0 - 1)..MaxTextCoord

\* the width and height cairo measures for a text range over 0..MaxExtent
MaxExtent == 1

\* image surfaces are k by k pixels, k in 1..MaxImage
MaxImage == 2

(***************************************************************************)
(* point2d                                                                 *)
(***************************************************************************)
Pt(px, py) == [x |-> px, y |-> py]

RectPoints == [x : RectCoord, y : RectCoord]

\* std::min(a, b): b when b < a, else a
std_min(a, b) == IF b < a THEN b ELSE a

\* std::max(a, b): b when a < b, else a
std_max(a, b) == IF a < b THEN b ELSE a

(***************************************************************************)
(* ezgl::rectangle                                                         *)
(***************************************************************************)
\* rectangle(point2d origin, point2d top_right)
rectangle(origin, top_right) == [m_first |-> origin, m_second |-> top_right]

\* rectangle(point2d origin, double width, double height): m_second is origin
\* moved by (width, height)
rectangle_wh(origin, w, h) ==
  [m_first |-> origin, m_second |-> Pt(origin.x + w, origin.y + h)]

\* a variant of left() that takes the first corner for the left one
left_nomin(r) == r.m_first.x

left(r) == std_min(r.m_first.x, r.m_second.x)

right(r) == std_max(r.m_first.x, r.m_second.x)

bottom(r) == std_min(r.m_first.y, r.m_second.y)

top(r) == std_max(r.m_first.y, r.m_second.y)

\* a variant of contains() that leaves the border out
contains_open(r, px, py) ==
  IF px <= left(r) \/ right(r) <= px \/ py <= bottom(r) \/ top(r) <= py
  THEN FALSE
  ELSE TRUE

\* bool contains(double x, double y)
contains(r, px, py) ==
  IF px < left(r) \/ right(r) < px \/ py < bottom(r) \/ top(r) < py
  THEN FALSE
  ELSE TRUE

\* bool contains(point2d point)
contains_point(r, p) == contains(r, p.x, p.y)

\* void offset(double x_offset, double y_offset): both corners move
offset(r, dx, dy) ==
  [m_first  |-> Pt(r.m_first.x + dx, r.m_first.y + dy),
   m_second |-> Pt(r.m_second.x + dx, r.m_second.y + dy)]

width(r) == right(r) - left(r)

height(r) == top(r) - bottom(r)

area(r) == width(r) * height(r)

InRectRange(r) ==
  /\ r.m_first.x \in RectCoord /\ r.m_first.y \in RectCoord
  /\ r.m_second.x \in RectCoord /\ r.m_second.y \in RectCoord

(***************************************************************************)
(* ezgl::canvas                                                            *)
(***************************************************************************)
Sizes == [w : 1..MaxSize, h : 1..MaxSize]

\* one library call or callback invocation made by a handler
Ev(name, c, s, wdg) == [ev |-> name, ctx |-> c, surface |-> s, widget |-> wdg]

\* the cairo context GTK hands to the draw handler is context 0; the contexts
\* cairo_create returns are numbered from 1
FreshContext(ctxs) == CHOOSE c \in 1..(Cardinality(ctxs) + 1) : c \notin ctxs

\* create_surface(widget): a surface with the widget's allocated width and
\* height
create_surface(a) == [w |-> a.w, h |-> a.h, destroyed |-> FALSE]

\* cairo_surface_destroy(surface); a null surface is ignored by cairo
cairo_surface_destroy(ss, s) ==
  IF s = 0 THEN ss ELSE [ss EXCEPT ![s].destroyed = TRUE]

\* a variant of redraw() that does not destroy its context
redraw_leak(tr, ctxs, surf, wdg) ==
  LET c  == FreshContext(ctxs)
      t1 == Append(tr, Ev("cairo_create", c, surf, "nullptr"))
      t2 == Append(t1, Ev("m_draw_callback", c, surf, "nullptr"))
      t4 == Append(t2, Ev("gtk_widget_queue_draw", 0, 0, wdg))
  IN  [trace |-> t4, contexts |-> ctxs \cup {c}, queued |-> TRUE]

\* canvas::redraw(): the calls it makes, appended to the handler's trace tr,
\* the live contexts and GTK's queued flag when it returns
redraw(tr, ctxs, surf, wdg) ==
  LET c  == FreshContext(ctxs)
      \* cairo_t *context = cairo_create(m_surface);
      t1   == Append(tr, Ev("cairo_create", c, surf, "nullptr"))
      ctx1 == ctxs \cup {c}
      \* m_draw_callback(context);
      t2   == Append(t1, Ev("m_draw_callback", c, surf, "nullptr"))
      \* cairo_destroy(context);
      t3   == Append(t2, Ev("cairo_destroy", c, surf, "nullptr"))
      ctx3 == ctx1 \ {c}
      \* gtk_widget_queue_draw(m_drawing_area);
      t4   == Append(t3, Ev("gtk_widget_queue_draw", 0, 0, wdg))
  IN  [trace |-> t4, contexts |-> ctx3, queued |-> TRUE]

\* the last step: its name, whether its user data was null, its return value
\* (FALSE also stands for the void return)
Handler(name, data_null, ret) ==
  [name |-> name, data_null |-> data_null, ret |-> ret]

CanvasInit ==
  /\ m_drawing_area = "nullptr"
  /\ m_surface = 0
  /\ surfaces = << >>
  /\ contexts = {}
  /\ alloc \in Sizes
  /\ connected = FALSE
  /\ queued = FALSE
  /\ ctrace = << >>
  /\ chandler = Handler("none", FALSE, FALSE)

\* canvas::initialize(drawing_area), called once by the application
initialize ==
  \E drawing_area \in {"nullptr", "area"} :
    /\ m_drawing_area = "nullptr"
    /\ Len(surfaces) < MaxSurfaces
    /\ IF drawing_area = "nullptr"
       THEN \* g_return_if_fail(drawing_area != nullptr);
            /\ ctrace' = << >>
            /\ chandler' = Handler("initialize", FALSE, FALSE)
            /\ UNCHANGED <<m_drawing_area, m_surface, surfaces, contexts,
                           connected, queued>>
       ELSE LET ss == Append(surfaces, create_surface(alloc))
                s  == Len(ss)
                t0 == <<Ev("create_surface", 0, s, drawing_area)>>
                r  == redraw(t0, contexts, s, drawing_area)
            IN  /\ m_drawing_area' = drawing_area
                /\ surfaces' = ss
                /\ m_surface' = s
                /\ ctrace' = r.trace
                /\ contexts' = r.contexts
                /\ queued' = r.queued
                /\ connected' = TRUE
                /\ chandler' = Handler("initialize", FALSE, FALSE)
    /\ UNCHANGED <<alloc, rvars, gvars>>

\* a variant of configure_event that redraws on the surface it has
configure_event_keep ==
  \E data_null \in BOOLEAN :
    /\ connected
    /\ Len(surfaces) < MaxSurfaces
    /\ IF data_null
       THEN /\ ctrace' = << >>
            /\ chandler' = Handler("configure_event", TRUE, FALSE)
            /\ UNCHANGED <<m_surface, surfaces, contexts, queued>>
       ELSE LET r == redraw(<< >>, contexts, m_surface, m_drawing_area)
            IN  /\ UNCHANGED <<surfaces, m_surface>>
                /\ ctrace' = r.trace
                /\ contexts' = r.contexts
                /\ queued' = r.queued
                /\ chandler' = Handler("configure_event", FALSE, TRUE)
    /\ UNCHANGED <<m_drawing_area, alloc, connected, rvars, gvars>>

\* canvas::configure_event(widget, event, data): GTK delivers it to the
\* connected handler; widget is the drawing area
configure_event ==
  \E data_null \in BOOLEAN :
    /\ connected
    /\ Len(surfaces) < MaxSurfaces
    /\ IF data_null
       THEN \* g_return_val_if_fail(data != nullptr, FALSE);
            /\ ctrace' = << >>
            /\ chandler' = Handler("configure_event", TRUE, FALSE)
            /\ UNCHANGED <<m_surface, surfaces, contexts, queued>>
       ELSE LET \* if(surface == nullptr) cairo_surface_destroy(surface);
                s0 == IF m_surface = 0
                      THEN cairo_surface_destroy(surfaces, m_surface)
                      ELSE surfaces
                \* surface = create_surface(widget);
                ss == Append(s0, create_surface(alloc))
                s  == Len(ss)
                t0 == <<Ev("create_surface", 0, s, m_drawing_area)>>
                \* ezgl_canvas->redraw();
                r  == redraw(t0, contexts, s, m_drawing_area)
            IN  /\ surfaces' = ss
                /\ m_surface' = s
                /\ ctrace' = r.trace
                /\ contexts' = r.contexts
                /\ queued' = r.queued
                /\ chandler' = Handler("configure_event", FALSE, TRUE)
    /\ UNCHANGED <<m_drawing_area, alloc, connected, rvars, gvars>>

\* a variant of draw_surface that runs the draw callback itself
draw_surface_redraws ==
  /\ connected
  /\ LET r == redraw(<< >>, contexts, m_surface, m_drawing_area)
     IN  /\ ctrace' = r.trace \o <<Ev("cairo_set_source_surface", 0, m_surface, "nullptr"),
                                   Ev("cairo_paint", 0, 0, "nullptr")>>
         /\ contexts' = r.contexts
         /\ queued' = r.queued
  /\ chandler' = Handler("draw_surface", FALSE, FALSE)
  /\ UNCHANGED <<m_drawing_area, m_surface, surfaces, alloc, connected,
                 rvars, gvars>>

\* canvas::draw_surface(widget, context, data): GTK delivers a draw event with
\* the widget's own context (context 0)
draw_surface ==
  /\ connected
  /\ ctrace' = <<Ev("cairo_set_source_surface", 0, m_surface, "nullptr"),
                 Ev("cairo_paint", 0, 0, "nullptr")>>
  /\ chandler' = Handler("draw_surface", FALSE, FALSE)
  \* GTK has served its queued redraw when the draw handler runs
  /\ queued' = FALSE
  /\ UNCHANGED <<m_drawing_area, m_surface, surfaces, contexts, alloc,
                 connected, rvars, gvars>>

\* canvas::redraw() forced by the programmer on the initialized canvas
force_redraw ==
  /\ m_drawing_area # "nullptr"
  /\ LET r == redraw(<< >>, contexts, m_surface, m_drawing_area)
     IN  /\ ctrace' = r.trace
         /\ contexts' = r.contexts
         /\ queued' = r.queued
  /\ chandler' = Handler("redraw", FALSE, FALSE)
  /\ UNCHANGED <<m_drawing_area, m_surface, surfaces, alloc, connected,
                 rvars, gvars>>

\* GTK changes the widget's allocation (the user resizes the window)
resize ==
  \E a \in Sizes :
    /\ a # alloc
    /\ alloc' = a
    /\ ctrace' = << >>
    /\ chandler' = Handler("resize", FALSE, FALSE)
    /\ UNCHANGED <<m_drawing_area, m_surface, surfaces, contexts, connected,
                   queued, rvars, gvars>>

CanvasNext ==
  initialize \/ configure_event \/ draw_surface \/ force_redraw \/ resize

(***************************************************************************)
(* ezgl::renderer.  The model follows the cairo path of each function (the  *)
(* build without EZGL_USE_X11).                                             *)
(***************************************************************************)
\* rectangle::bottom_left() and rectangle::top_right()
bottom_left(rc) == Pt(left(rc), bottom(rc))

top_right(rc) == Pt(right(rc), top(rc))

\* point2d operators -, + and * (componentwise)
pt_sub(a, b) == Pt(a.x - b.x, a.y - b.y)

pt_add(a, b) == Pt(a.x + b.x, a.y + b.y)

pt_mul(a, b) == Pt(a.x * b.x, a.y * b.y)

\* m_transform(point): the world-to-screen function the renderer was
\* constructed with, an affine map on each axis
transform_fn(pt) ==
  Pt(m_transform.ax * pt.x + m_transform.bx,
     m_transform.ay * pt.y + m_transform.by)

\* one cairo call: its name, the point and radius it is given, and, for an
\* arc, the stretch factor radius_y / radius_x as the pair <<radius_y,
\* radius_x>>: cairo gets x * stretch and r * stretch under
\* cairo_scale(1 / stretch, 1).  ref marks the move_to of draw_text, whose
\* point is (x, y) less the offset computed from the text and font extents
\* and the rotation angle.
Call(fn, px, py, rad, st, rf) ==
  [fn |-> fn, x |-> px, y |-> py, r |-> rad, stretch |-> st, ref |-> rf]

C0(fn) == Call(fn, 0, 0, 0, <<1, 1>>, FALSE)

CP(fn, pt) == Call(fn, pt.x, pt.y, 0, <<1, 1>>, FALSE)

\* rectangle renderer::get_visible_world()
get_visible_world ==
  LET world  == camera.world
      screen == camera.screen
      margin == pt_mul(bottom_left(screen), camera.scale)
  IN  rectangle(pt_sub(bottom_left(world), margin),
                pt_add(top_right(world), margin))

\* a variant of rectangle_off_screen() that also rejects touching rectangles
rectangle_off_screen_touch(rc) ==
  IF current_coordinate_system = "SCREEN"
  THEN FALSE
  ELSE LET visible == get_visible_world
       IN  IF right(rc) <= left(visible) THEN TRUE
           ELSE IF left(rc) >= right(visible) THEN TRUE
           ELSE IF top(rc) <= bottom(visible) THEN TRUE
           ELSE IF bottom(rc) >= top(visible) THEN TRUE
           ELSE FALSE

\* bool renderer::rectangle_off_screen(rectangle rect)
rectangle_off_screen(rc) ==
  IF current_coordinate_system = "SCREEN"
  THEN FALSE
  ELSE LET visible == get_visible_world
       IN  IF right(rc) < left(visible) THEN TRUE
           ELSE IF left(rc) > right(visible) THEN TRUE
           ELSE IF top(rc) < bottom(visible) THEN TRUE
           ELSE IF bottom(rc) > top(visible) THEN TRUE
           ELSE FALSE

\* a variant of draw_line() that transforms the start point twice
draw_line_twice(start, end) ==
  IF rectangle_off_screen(rectangle(start, end))
  THEN << >>
  ELSE LET s == IF current_coordinate_system = "WORLD"
                THEN transform_fn(transform_fn(start)) ELSE start
           e == IF current_coordinate_system = "WORLD"
                THEN transform_fn(end) ELSE end
       IN  <<CP("cairo_move_to", s), CP("cairo_line_to", e),
             C0("cairo_stroke")>>

\* void renderer::draw_line(point2d start, point2d end)
draw_line(start, end) ==
  IF rectangle_off_screen(rectangle(start, end))
  THEN << >>
  ELSE LET s == IF current_coordinate_system = "WORLD"
                THEN transform_fn(start) ELSE start
           e == IF current_coordinate_system = "WORLD"
                THEN transform_fn(end) ELSE end
       IN  <<CP("cairo_move_to", s), CP("cairo_line_to", e),
             C0("cairo_stroke")>>

\* void renderer::draw_rectangle_path(point2d start, point2d end, bool fill_flag)
draw_rectangle_path(start, end, fill_flag) ==
  LET s == IF current_coordinate_system = "WORLD"
           THEN transform_fn(start) ELSE start
      e == IF current_coordinate_system = "WORLD"
           THEN transform_fn(end) ELSE end
  IN  <<CP("cairo_move_to", Pt(s.x, s.y)),
        CP("cairo_line_to", Pt(s.x, e.y)),
        CP("cairo_line_to", Pt(e.x, e.y)),
        CP("cairo_line_to", Pt(e.x, s.y)),
        C0("cairo_close_path"),
        IF fill_flag THEN C0("cairo_fill") ELSE C0("cairo_stroke")>>

\* void renderer::draw_rectangle(point2d start, point2d end)
draw_rectangle(start, end) ==
  IF rectangle_off_screen(rectangle(start, end))
  THEN << >>
  ELSE draw_rectangle_path(start, end, FALSE)

\* void renderer::draw_rectangle(point2d start, double width, double height)
draw_rectangle_wh(start, w, h) ==
  IF rectangle_off_screen(rectangle(start, Pt(start.x + w, start.y + h)))
  THEN << >>
  ELSE draw_rectangle_path(start, Pt(start.x + w, start.y + h), FALSE)

\* void renderer::draw_rectangle(rectangle r)
draw_rectangle_r(rc) ==
  IF rectangle_off_screen(rectangle(Pt(left(rc), bottom(rc)),
                                    Pt(right(rc), top(rc))))
  THEN << >>
  ELSE draw_rectangle_path(Pt(left(rc), bottom(rc)),
                           Pt(right(rc), top(rc)), FALSE)

\* void renderer::fill_rectangle(point2d start, point2d end)
fill_rectangle(start, end) ==
  IF rectangle_off_screen(rectangle(start, end))
  THEN << >>
  ELSE draw_rectangle_path(start, end, TRUE)

\* void renderer::fill_rectangle(point2d start, double width, double height)
fill_rectangle_wh(start, w, h) ==
  IF rectangle_off_screen(rectangle(start, Pt(start.x + w, start.y + h)))
  THEN << >>
  ELSE draw_rectangle_path(start, Pt(start.x + w, start.y + h), TRUE)

\* void renderer::fill_rectangle(rectangle r)
fill_rectangle_r(rc) ==
  IF rectangle_off_screen(rectangle(Pt(left(rc), bottom(rc)),
                                    Pt(right(rc), top(rc))))
  THEN << >>
  ELSE draw_rectangle_path(Pt(left(rc), bottom(rc)),
                           Pt(right(rc), top(rc)), TRUE)

\* the loop of fill_poly over points[1..]: the running minimum or maximum
RECURSIVE poly_fold(_, _, _, _)
poly_fold(points, i, acc, f) ==
  IF i > Len(points) THEN acc
  ELSE poly_fold(points, i + 1,
                 CASE f = "x_min" -> std_min(acc, points[i].x)
                   [] f = "x_max" -> std_max(acc, points[i].x)
                   [] f = "y_min" -> std_min(acc, points[i].y)
                   [] OTHER       -> std_max(acc, points[i].y),
                 f)

\* void renderer::fill_poly(std::vector<point2d> const &points), called with
\* more than one point (assert(points.size() > 1))
fill_poly(points) ==
  LET x_min == poly_fold(points, 2, points[1].x, "x_min")
      x_max == poly_fold(points, 2, points[1].x, "x_max")
      y_min == poly_fold(points, 2, points[1].y, "y_min")
      y_max == poly_fold(points, 2, points[1].y, "y_max")
      next_point(i) == IF current_coordinate_system = "WORLD"
                       THEN transform_fn(points[i]) ELSE points[i]
  IN  IF rectangle_off_screen(rectangle(Pt(x_min, y_min), Pt(x_max, y_max)))
      THEN << >>
      ELSE <<CP("cairo_move_to", next_point(1))>>
           \o [i \in 1..(Len(points) - 1) |->
                 CP("cairo_line_to", next_point(i + 1))]
           \o <<C0("cairo_close_path"), C0("cairo_fill")>>

\* void renderer::draw_arc_path(center, radius, start_angle, extent_angle,
\* stretch_factor, fill_flag); stretch is <<radius_y, radius_x>>
draw_arc_path(center, radius, start_angle, extent_angle, stretch, fill_flag) ==
  LET point_x == Pt(center.x + radius, center.y)
      c  == IF current_coordinate_system = "WORLD"
            THEN transform_fn(center) ELSE center
      px == IF current_coordinate_system = "WORLD"
            THEN transform_fn(point_x) ELSE point_x
      rad == px.x - c.x
      arc == IF extent_angle >= 0 THEN "cairo_arc_negative" ELSE "cairo_arc"
  IN  <<C0("cairo_save"),
        Call("cairo_scale", 0, 0, 0, stretch, FALSE),
        C0("cairo_new_path")>>
      \o (IF fill_flag
          THEN <<Call("cairo_move_to", c.x, c.y, 0, stretch, FALSE)>>
          ELSE << >>)
      \o <<Call(arc, c.x, c.y, rad, stretch, FALSE)>>
      \o (IF fill_flag THEN <<C0("cairo_close_path")>> ELSE << >>)
      \o <<C0("cairo_restore"),
           IF fill_flag THEN C0("cairo_fill") ELSE C0("cairo_stroke")>>

\* void renderer::draw_elliptic_arc(center, radius_x, radius_y, start_angle,
\* extent_angle)
draw_elliptic_arc(center, radius_x, radius_y, start_angle, extent_angle) ==
  IF rectangle_off_screen(
       rectangle(Pt(center.x - radius_x, center.y - radius_y),
                 Pt(center.x + radius_x, center.y + radius_y)))
  THEN << >>
  ELSE draw_arc_path(center, radius_x, start_angle, extent_angle,
                     <<radius_y, radius_x>>, FALSE)

\* void renderer::draw_arc(center, radius, start_angle, extent_angle)
draw_arc(center, radius, start_angle, extent_angle) ==
  IF rectangle_off_screen(
       rectangle(Pt(center.x - radius, center.y - radius),
                 Pt(center.x + radius, center.y + radius)))
  THEN << >>
  ELSE draw_arc_path(center, radius, start_angle, extent_angle,
                     <<1, 1>>, FALSE)

\* void renderer::fill_elliptic_arc(center, radius_x, radius_y, start_angle,
\* extent_angle)
fill_elliptic_arc(center, radius_x, radius_y, start_angle, extent_angle) ==
  IF rectangle_off_screen(
       rectangle(Pt(center.x - radius_x, center.y - radius_y),
                 Pt(center.x + radius_x, center.y + radius_y)))
  THEN << >>
  ELSE draw_arc_path(center, radius_x, start_angle, extent_angle,
                     <<radius_y, radius_x>>, TRUE)

\* void renderer::fill_arc(center, radius, start_angle, extent_angle)
fill_arc(center, radius, start_angle, extent_angle) ==
  IF rectangle_off_screen(
       rectangle(Pt(center.x - radius, center.y - radius),
                 Pt(center.x + radius, center.y + radius)))
  THEN << >>
  ELSE draw_arc_path(center, radius, start_angle, extent_angle,
                     <<1, 1>>, TRUE)

\* void renderer::draw_text(point2d center, std::string const &text,
\* double bound_x, double bound_y); tw and th are the width and height cairo
\* measures for the text (text_extents.width, text_extents.height)
draw_text_bounded(center, tw, th, bound_x, bound_y) ==
  IF rectangle_off_screen(
       rectangle_wh(Pt(center.x - bound_x \div 2, center.y - bound_y \div 2),
                    bound_x, bound_y))
  THEN << >>
  ELSE LET measured == <<C0("cairo_text_extents"), C0("cairo_font_extents")>>
           scaled_width  == tw * camera.scale.x
           scaled_height == th * camera.scale.y
           c == IF current_coordinate_system = "WORLD"
                THEN transform_fn(center) ELSE center
       IN  IF scaled_width > bound_x \/ scaled_height > bound_y
           THEN measured
           ELSE measured \o
                <<C0("cairo_save"),
                  Call("cairo_move_to", c.x, c.y, 0, <<1, 1>>, TRUE),
                  C0("cairo_rotate"),
                  C0("cairo_show_text"),
                  C0("cairo_restore")>>

\* a variant of draw_text() that bounds the text by the farther side
draw_text_rect_max(center, tw, th, bounds) ==
  LET bottom_left_bounds == pt_sub(center, bottom_left(bounds))
      top_right_bounds   == pt_sub(top_right(bounds), center)
      bound_x == std_max(bottom_left_bounds.x, top_right_bounds.x) * 2
      bound_y == std_max(bottom_left_bounds.y, top_right_bounds.y) * 2
  IN  draw_text_bounded(center, tw, th, bound_x, bound_y)

\* void renderer::draw_text(point2d center, std::string const &text,
\* const rectangle &bounds)
draw_text_rect(center, tw, th, bounds) ==
  LET bottom_left_bounds == pt_sub(center, bottom_left(bounds))
      top_right_bounds   == pt_sub(top_right(bounds), center)
      bound_x == std_min(bottom_left_bounds.x, top_right_bounds.x) * 2
      bound_y == std_min(bottom_left_bounds.y, top_right_bounds.y) * 2
  IN  draw_text_bounded(center, tw, th, bound_x, bound_y)

\* a variant of draw_surface() without the status test
renderer_draw_surface_nocheck(status, s_width, s_height, top_left) ==
  IF rectangle_off_screen(
       rectangle_wh(Pt(top_left.x, top_left.y - s_height), s_width, s_height))
  THEN << >>
  ELSE LET tl == IF current_coordinate_system = "WORLD"
                 THEN transform_fn(top_left) ELSE top_left
       IN  <<CP("cairo_set_source_surface", tl), C0("cairo_paint")>>

\* void renderer::draw_surface(cairo_surface_t *surface, point2d top_left);
\* status, s_width and s_height are what cairo reports for the surface
renderer_draw_surface(status, s_width, s_height, top_left) ==
  IF status # "SUCCESS"
  THEN << >>
  ELSE IF rectangle_off_screen(
            rectangle_wh(Pt(top_left.x, top_left.y - s_height),
                         s_width, s_height))
       THEN << >>
       ELSE LET tl == IF current_coordinate_system = "WORLD"
                      THEN transform_fn(top_left) ELSE top_left
            IN  <<CP("cairo_set_source_surface", tl), C0("cairo_paint")>>

\* void renderer::draw_png(const char *file_path, point2d top_left); status,
\* s_width and s_height are what cairo reports for the loaded image
draw_png(status, s_width, s_height, top_left) ==
  <<C0("cairo_image_surface_create_from_png")>>
  \o (IF status # "SUCCESS"
      THEN << >>
      ELSE renderer_draw_surface(status, s_width, s_height, top_left)
           \o <<C0("cairo_surface_destroy")>>)

\* the status of m_cairo after the calls tr: cairo puts a context into the
\* error state of a source surface that is in error
context_status(tr, status) ==
  IF cairo_status = "SUCCESS" /\ status # "SUCCESS"
     /\ \E i \in DOMAIN tr : tr[i].fn = "cairo_set_source_surface"
  THEN status
  ELSE cairo_status

(***************************************************************************)
(* Renderer calls as actions.  The application draws with the points        *)
(* arg_p, arg_q and arg_r.                                                  *)
(***************************************************************************)
Points == [x : Coord, y : Coord]

TextPoints == [x : TextCoord, y : TextCoord]

Cameras ==
  {[world  |-> rectangle(Pt(0, 0), Pt(1, 1)),
    screen |-> rectangle(Pt(0, 0), Pt(4, 4)),
    scale  |-> Pt(1, 1)],
   [world  |-> rectangle(Pt(0, 0), Pt(1, 1)),
    screen |-> rectangle(Pt(0, 1), Pt(4, 5)),
    scale  |-> Pt(2, 1)]}

Transforms ==
  {[ax |-> 2, bx |-> 3, ay |-> 0 - 2, by |-> 5],
   [ax |-> 3, bx |-> 0, ay |-> 1, by |-> 1]}

Angles == {<<0, 90>>, <<90, 0 - 90>>}

Extents == 0..MaxExtent

\* what cairo reports for an image: a loaded k by k image, or a failure with
\* no pixels
Images ==
  {[status |-> "SUCCESS", w |-> k, h |-> k] : k \in 1..MaxImage}
  \cup {[status |-> e, w |-> 0, h |-> 0] : e \in {"FILE_NOT_FOUND", "READ_ERROR"}}

GCall(fn, ang, tw, th, img, n) ==
  [fn |-> fn, start_angle |-> ang[1], extent_angle |-> ang[2],
   tw |-> tw, th |-> th, image |-> img, n |-> n]

NoImage == [status |-> "SUCCESS", w |-> 0, h |-> 0]

G0(fn) == GCall(fn, <<0, 0>>, 0, 0, NoImage, 0)

GEnv == <<camera, m_transform, arg_p, arg_q, arg_r>>

RenderInitCommon ==
  /\ current_coordinate_system = "WORLD"
  /\ camera \in Cameras
  /\ m_transform \in Transforms
  /\ cairo_status = "SUCCESS"
  /\ gcall = G0("none")
  /\ gtrace = << >>

RenderInit ==
  /\ RenderInitCommon
  /\ arg_p \in Points
  /\ arg_q \in Points
  /\ arg_r = Pt(0, 0)

\* the text calls are drawn with one transform and every camera
TextInit ==
  /\ RenderInitCommon
  /\ m_transform = CHOOSE t \in Transforms : t.bx = 0
  /\ arg_p \in TextPoints
  /\ arg_q \in TextPoints
  /\ arg_r \in TextPoints

RenderIdle ==
  /\ RenderInitCommon
  /\ camera = CHOOSE c \in Cameras : c.scale = Pt(1, 1)
  /\ m_transform = CHOOSE t \in Transforms : t.bx = 0
  /\ arg_p = Pt(0, 0)
  /\ arg_q = Pt(0, 0)
  /\ arg_r = Pt(0, 0)

\* the cairo calls tr reach m_cairo; st is the status of the surface among them
Handed(tr, st) ==
  /\ gtrace' = tr
  /\ cairo_status' = context_status(tr, st)
  /\ UNCHANGED <<current_coordinate_system, GEnv, rvars, cvars>>

set_coordinate_system ==
  \E new_coordinate_system \in {"WORLD", "SCREEN"} :
    /\ current_coordinate_system' = new_coordinate_system
    /\ gcall' = G0("set_coordinate_system")
    /\ gtrace' = << >>
    /\ UNCHANGED <<cairo_status, GEnv, rvars, cvars>>

call_draw_line ==
  /\ gcall' = G0("draw_line")
  /\ Handed(draw_line(arg_p, arg_q), "SUCCESS")

call_draw_rectangle ==
  \/ /\ gcall' = G0("draw_rectangle")
     /\ Handed(draw_rectangle(arg_p, arg_q), "SUCCESS")
  \/ /\ gcall' = G0("draw_rectangle_wh")
     /\ Handed(draw_rectangle_wh(arg_p, arg_q.x, arg_q.y), "SUCCESS")
  \/ /\ gcall' = G0("draw_rectangle_r")
     /\ Handed(draw_rectangle_r(rectangle(arg_p, arg_q)), "SUCCESS")

call_fill_rectangle ==
  \/ /\ gcall' = G0("fill_rectangle")
     /\ Handed(fill_rectangle(arg_p, arg_q), "SUCCESS")
  \/ /\ gcall' = G0("fill_rectangle_wh")
     /\ Handed(fill_rectangle_wh(arg_p, arg_q.x, arg_q.y), "SUCCESS")
  \/ /\ gcall' = G0("fill_rectangle_r")
     /\ Handed(fill_rectangle_r(rectangle(arg_p, arg_q)), "SUCCESS")

PolyPoints(n) == SubSeq(<<arg_p, arg_q, arg_r>>, 1, n)

call_fill_poly ==
  \E n \in 2..3 :
    /\ gcall' = GCall("fill_poly", <<0, 0>>, 0, 0, NoImage, n)
    /\ Handed(fill_poly(PolyPoints(n)), "SUCCESS")

call_draw_arc ==
  \E ang \in Angles :
    /\ gcall' = GCall("draw_arc", ang, 0, 0, NoImage, 0)
    /\ Handed(draw_arc(arg_p, arg_q.x, ang[1], ang[2]), "SUCCESS")

call_fill_arc ==
  \E ang \in Angles :
    /\ gcall' = GCall("fill_arc", ang, 0, 0, NoImage, 0)
    /\ Handed(fill_arc(arg_p, arg_q.x, ang[1], ang[2]), "SUCCESS")

call_draw_elliptic_arc ==
  \E ang \in Angles :
    /\ gcall' = GCall("draw_elliptic_arc", ang, 0, 0, NoImage, 0)
    /\ Handed(draw_elliptic_arc(arg_p, arg_q.x, arg_q.y, ang[1], ang[2]),
              "SUCCESS")

call_fill_elliptic_arc ==
  \E ang \in Angles :
    /\ gcall' = GCall("fill_elliptic_arc", ang, 0, 0, NoImage, 0)
    /\ Handed(fill_elliptic_arc(arg_p, arg_q.x, arg_q.y, ang[1], ang[2]),
              "SUCCESS")

\* draw_text with explicit bounds; the bounds are even numbers, so that
\* bound / 2 is exact in integers
call_draw_text_bounded ==
  \E tw \in Extents, th \in Extents :
    /\ gcall' = GCall("draw_text_bounded", <<0, 0>>, tw, th, NoImage, 0)
    /\ Handed(draw_text_bounded(arg_p, tw, th, 2 * arg_q.x, 2 * arg_q.y),
              "SUCCESS")

call_draw_text_rect ==
  \E tw \in Extents, th \in Extents :
    /\ gcall' = GCall("draw_text_rect", <<0, 0>>, tw, th, NoImage, 0)
    /\ Handed(draw_text_rect(arg_p, tw, th, rectangle(arg_q, arg_r)),
              "SUCCESS")

call_draw_surface ==
  \E img \in Images :
    /\ gcall' = GCall("draw_surface", <<0, 0>>, 0, 0, img, 0)
    /\ Handed(renderer_draw_surface(img.status, img.w, img.h, arg_p),
              img.status)

call_draw_png ==
  \E img \in Images :
    /\ gcall' = GCall("draw_png", <<0, 0>>, 0, 0, img, 0)
    /\ Handed(draw_png(img.status, img.w, img.h, arg_p), img.status)

RenderNext ==
  \/ set_coordinate_system
  \/ call_draw_line
  \/ call_draw_rectangle
  \/ call_fill_rectangle
  \/ call_fill_poly
  \/ call_draw_arc
  \/ call_fill_arc
  \/ call_draw_elliptic_arc
  \/ call_fill_elliptic_arc
  \/ call_draw_text_bounded
  \/ call_draw_surface
  \/ call_draw_png

TextNext ==
  \/ set_coordinate_system
  \/ call_draw_text_rect

(***************************************************************************)
(* Rectangle operations as actions                                         *)
(***************************************************************************)
NoRCall == [op |-> "none", x |-> 0, y |-> 0, res |-> FALSE, res_pt |-> FALSE]

RectInit ==
  /\ rect = rectangle(Pt(0, 0), Pt(0, 0))
  /\ rcall = NoRCall

\* A rectangle is constructed once (rcall.op = "none" marks the object that
\* does not exist yet); the later operations act on the constructed object.
RectConstruct ==
  \E p \in RectPoints, q \in RectPoints :
    /\ rcall.op = "none"
    /\ rect' = rectangle(p, q)
    /\ rcall' = [NoRCall EXCEPT !.op = "construct"]
    /\ UNCHANGED <<cvars, gvars>>

RectConstructWH ==
  \E p \in RectPoints, w \in RectCoord, h \in RectCoord :
    /\ rcall.op = "none"
    /\ InRectRange(rectangle_wh(p, w, h))
    /\ rect' = rectangle_wh(p, w, h)
    /\ rcall' = [NoRCall EXCEPT !.op = "construct_wh"]
    /\ UNCHANGED <<cvars, gvars>>

RectOffset ==
  \E dx \in RectCoord, dy \in RectCoord :
    /\ rcall.op # "none"
    /\ InRectRange(offset(rect, dx, dy))
    /\ rect' = offset(rect, dx, dy)
    /\ rcall' = [NoRCall EXCEPT !.op = "offset"]
    /\ UNCHANGED <<cvars, gvars>>

RectContains ==
  \E px \in RectCoord, py \in RectCoord :
    /\ rcall.op # "none"
    /\ rcall' = [op |-> "contains", x |-> px, y |-> py,
                 res |-> contains(rect, px, py),
                 res_pt |-> contains_point(rect, Pt(px, py))]
    /\ UNCHANGED <<rect, cvars, gvars>>

RectNext == RectConstruct \/ RectConstructWH \/ RectOffset \/ RectContains

CanvasIdle ==
  /\ CanvasInit
  /\ alloc = [w |-> 1, h |-> 1]

RectIdle == rect = rectangle(Pt(0, 0), Pt(0, 0)) /\ rcall = NoRCall

\* the rectangle specification: canvas and renderer stay as constructed
InitRect == RectInit /\ CanvasIdle /\ RenderIdle

SpecRect == InitRect /\ [][RectNext]_vars

\* the canvas specification
InitCanvas == RectIdle /\ CanvasInit /\ RenderIdle

SpecCanvas == InitCanvas /\ [][CanvasNext]_vars

\* the renderer specification
InitRender == RectIdle /\ CanvasIdle /\ RenderInit

SpecRender == InitRender /\ [][RenderNext]_vars

\* the renderer's text calls
InitText == RectIdle /\ CanvasIdle /\ TextInit

SpecText == InitText /\ [][TextNext]_vars

(***************************************************************************)
(* Canvas properties                                                       *)
(***************************************************************************)
EvCount(tr, name) == Cardinality({i \in DOMAIN tr : tr[i].ev = name})

\* the last step ran canvas::redraw(): directly, from a successful
\* initialize, or from a configure event with user data
RedrawRan ==
  \/ chandler.name = "redraw"
  \/ chandler.name = "initialize" /\ m_drawing_area # "nullptr"
  \/ chandler.name = "configure_event" /\ ~chandler.data_null

\* C1: every call of canvas::redraw() creates one context from the canvas's
\* current surface, invokes the draw callback exactly once with it, destroys
\* it, and then queues exactly one redraw of the drawing area, in that order;
\* no context created by redraw() is live once a handler has returned.
C1_RedrawContract ==
  /\ contexts = {}
  /\ RedrawRan =>
       LET n == Len(ctrace) IN
       /\ n >= 4
       /\ ctrace[n - 3].ev = "cairo_create"
       /\ ctrace[n - 3].surface = m_surface
       /\ ctrace[n - 3].ctx # 0
       /\ ctrace[n - 2].ev = "m_draw_callback"
       /\ ctrace[n - 2].ctx = ctrace[n - 3].ctx
       /\ ctrace[n - 1].ev = "cairo_destroy"
       /\ ctrace[n - 1].ctx = ctrace[n - 3].ctx
       /\ ctrace[n].ev = "gtk_widget_queue_draw"
       /\ ctrace[n].widget = m_drawing_area
       /\ EvCount(ctrace, "cairo_create") = 1
       /\ EvCount(ctrace, "m_draw_callback") = 1
       /\ EvCount(ctrace, "cairo_destroy") = 1
       /\ EvCount(ctrace, "gtk_widget_queue_draw") = 1
       /\ queued

\* a forced redraw after a configure event has replaced the surface
C1_Witness ==
  /\ chandler.name = "redraw"
  /\ Len(surfaces) >= 2
  /\ EvCount(ctrace, "m_draw_callback") = 1
  /\ contexts = {}

\* C2: the draw handler only paints the off-screen surface onto the widget's
\* context: it changes no canvas field, creates and destroys no surface and
\* no context, never invokes the draw callback, and returns FALSE.
C2_DrawSurfaceOnlyPaints ==
  [][chandler'.name = "draw_surface" =>
       /\ UNCHANGED <<m_drawing_area, m_surface, surfaces, contexts>>
       /\ ctrace' = <<Ev("cairo_set_source_surface", 0, m_surface, "nullptr"),
                      Ev("cairo_paint", 0, 0, "nullptr")>>
       /\ EvCount(ctrace', "m_draw_callback") = 0
       /\ chandler'.ret = FALSE]_vars

\* the draw handler has painted the surface a configure event created
C2_Witness ==
  /\ chandler.name = "draw_surface"
  /\ Len(surfaces) >= 2
  /\ Len(ctrace) = 2
  /\ ctrace[1].surface = m_surface
  /\ ~queued

\* C3: a configure event with non-null user data replaces the off-screen
\* surface with a newly created one that has the widget's current allocation,
\* runs the draw callback on the new surface only, and returns TRUE.
C3_ConfigureRedraws ==
  [][(chandler'.name = "configure_event" /\ ~chandler'.data_null) =>
       /\ m_surface' # m_surface
       /\ m_surface' \notin DOMAIN surfaces
       /\ m_surface' \in DOMAIN surfaces'
       /\ surfaces'[m_surface'].w = alloc.w
       /\ surfaces'[m_surface'].h = alloc.h
       /\ ~surfaces'[m_surface'].destroyed
       /\ EvCount(ctrace', "m_draw_callback") = 1
       /\ \A i \in DOMAIN ctrace' :
            ctrace'[i].ev = "m_draw_callback" =>
              ctrace'[i].surface = m_surface'
       /\ chandler'.ret = TRUE]_vars

\* a configure event after a resize: the new surface has another size than
\* the one initialize created
C3_Witness ==
  /\ chandler.name = "configure_event"
  /\ ~chandler.data_null
  /\ m_surface >= 2
  /\ surfaces[m_surface].w # surfaces[1].w
  /\ EvCount(ctrace, "m_draw_callback") = 1

(***************************************************************************)
(* Rectangle properties                                                    *)
(***************************************************************************)
SetMin(S) == CHOOSE m \in S : \A e \in S : m <= e

SetMax(S) == CHOOSE m \in S : \A e \in S : e <= m

\* C6: for a rectangle built from two points in any order, also after
\* offset(), left() is the minimum and right() the maximum x-coordinate,
\* bottom() the minimum and top() the maximum y-coordinate of the stored
\* corners, so left() <= right(), bottom() <= top(), and width, height and
\* area are never negative.
C6_RectangleOrdered ==
  rcall.op # "none" =>
    /\ left(rect) = SetMin({rect.m_first.x, rect.m_second.x})
    /\ right(rect) = SetMax({rect.m_first.x, rect.m_second.x})
    /\ bottom(rect) = SetMin({rect.m_first.y, rect.m_second.y})
    /\ top(rect) = SetMax({rect.m_first.y, rect.m_second.y})
    /\ left(rect) <= right(rect)
    /\ bottom(rect) <= top(rect)
    /\ width(rect) >= 0
    /\ height(rect) >= 0
    /\ area(rect) >= 0

\* a rectangle whose first corner is its bottom right one, after an offset
C6_Witness ==
  /\ rcall.op = "offset"
  /\ rect.m_first.x > rect.m_second.x
  /\ rect.m_first.y < rect.m_second.y
  /\ left(rect) = rect.m_second.x
  /\ area(rect) > 0

\* C7: contains(x, y) is true exactly when left() <= x <= right() and
\* bottom() <= y <= top(), border and corners included, whatever the order of
\* the corners; contains(point2d) agrees with contains(x, y).
C7_ContainsClosed ==
  rcall.op = "contains" =>
    /\ rcall.res = (/\ left(rect) <= rcall.x /\ rcall.x <= right(rect)
                    /\ bottom(rect) <= rcall.y /\ rcall.y <= top(rect))
    /\ rcall.res_pt = rcall.res

\* the bottom right corner of a rectangle built from its top right corner
\* first and its bottom left corner second is inside
C7_Witness ==
  /\ rcall.op = "contains"
  /\ rect.m_first.x > rect.m_second.x
  /\ rect.m_first.y > rect.m_second.y
  /\ rcall.x = rect.m_first.x
  /\ rcall.y = rect.m_second.y
  /\ rcall.res
  /\ rcall.res_pt

(***************************************************************************)
(* Renderer properties                                                     *)
(***************************************************************************)
RectFns == {"draw_rectangle", "draw_rectangle_r", "fill_rectangle",
            "fill_rectangle_r"}

RectWHFns == {"draw_rectangle_wh", "fill_rectangle_wh"}

ArcFns == {"draw_arc", "fill_arc"}

EllipticFns == {"draw_elliptic_arc", "fill_elliptic_arc"}

ClippedPrimitives ==
  {"draw_line", "fill_poly"} \cup RectFns \cup RectWHFns \cup ArcFns
  \cup EllipticFns

\* the x- and y-coordinates that span the last primitive's bounding rectangle
SpanX ==
  CASE gcall.fn \in {"draw_line"} \cup RectFns -> {arg_p.x, arg_q.x}
    [] gcall.fn \in RectWHFns -> {arg_p.x, arg_p.x + arg_q.x}
    [] gcall.fn = "fill_poly" ->
         {PolyPoints(gcall.n)[i].x : i \in 1..gcall.n}
    [] OTHER -> {arg_p.x - arg_q.x, arg_p.x + arg_q.x}

SpanY ==
  CASE gcall.fn \in {"draw_line"} \cup RectFns -> {arg_p.y, arg_q.y}
    [] gcall.fn \in RectWHFns -> {arg_p.y, arg_p.y + arg_q.y}
    [] gcall.fn = "fill_poly" ->
         {PolyPoints(gcall.n)[i].y : i \in 1..gcall.n}
    [] gcall.fn \in ArcFns -> {arg_p.y - arg_q.x, arg_p.y + arg_q.x}
    [] OTHER -> {arg_p.y - arg_q.y, arg_p.y + arg_q.y}

\* the bounding rectangle lies strictly entirely to the left of, right of,
\* below or above the visible world
StrictlyOutside ==
  LET visible == get_visible_world IN
  \/ SetMax(SpanX) < left(visible)
  \/ SetMin(SpanX) > right(visible)
  \/ SetMax(SpanY) < bottom(visible)
  \/ SetMin(SpanY) > top(visible)

\* C4: in the WORLD coordinate system a drawing primitive makes no cairo call
\* exactly when its bounding rectangle lies strictly entirely to one side of
\* the visible world; one that overlaps or touches it is drawn.
C4_ConservativeClipping ==
  (gcall.fn \in ClippedPrimitives /\ current_coordinate_system = "WORLD") =>
    ((gtrace = << >>) <=> StrictlyOutside)

\* a polygon whose bounding rectangle only touches the visible world's left
\* edge is drawn
C4_Witness ==
  /\ gcall.fn = "fill_poly"
  /\ gcall.n = 3
  /\ current_coordinate_system = "WORLD"
  /\ SetMax(SpanX) = left(get_visible_world)
  /\ SetMin(SpanX) < left(get_visible_world)
  /\ ~StrictlyOutside
  /\ gtrace # << >>

PointCalls == {"cairo_move_to", "cairo_line_to", "cairo_arc",
               "cairo_arc_negative", "cairo_set_source_surface"}

IsPointCall(c) == c.fn \in PointCalls

\* the points the last call handed to cairo, in order
BackendPoints ==
  LET cs == SelectSeq(gtrace, IsPointCall)
  IN  [i \in 1..Len(cs) |-> Pt(cs[i].x, cs[i].y)]

\* the caller's point as the current coordinate system has it passed on
XF(pt) ==
  IF current_coordinate_system = "WORLD" THEN transform_fn(pt) ELSE pt

Corners(s, e) ==
  <<XF(Pt(s.x, s.y)), XF(Pt(s.x, e.y)), XF(Pt(e.x, e.y)), XF(Pt(e.x, s.y))>>

\* the points of the last call, each passed through XF once
ExpectedPoints ==
  CASE gcall.fn = "draw_line" -> <<XF(arg_p), XF(arg_q)>>
    [] gcall.fn \in {"draw_rectangle", "fill_rectangle"} ->
         Corners(arg_p, arg_q)
    [] gcall.fn \in RectWHFns ->
         Corners(arg_p, Pt(arg_p.x + arg_q.x, arg_p.y + arg_q.y))
    [] gcall.fn \in {"draw_rectangle_r", "fill_rectangle_r"} ->
         Corners(Pt(SetMin({arg_p.x, arg_q.x}), SetMin({arg_p.y, arg_q.y})),
                 Pt(SetMax({arg_p.x, arg_q.x}), SetMax({arg_p.y, arg_q.y})))
    [] gcall.fn = "fill_poly" ->
         [i \in 1..gcall.n |-> XF(PolyPoints(gcall.n)[i])]
    [] gcall.fn \in {"draw_arc", "draw_elliptic_arc"} -> <<XF(arg_p)>>
    [] gcall.fn \in {"fill_arc", "fill_elliptic_arc"} -> <<XF(arg_p), XF(arg_p)>>
    [] OTHER -> <<XF(arg_p)>>

ImageFailed ==
  /\ gcall.fn \in {"draw_png", "draw_surface"}
  /\ gcall.image.status # "SUCCESS"

\* C8 as stated: a PNG load or a surface that reports a non-success status
\* is observable to the caller of draw_png or draw_surface, which return
\* nothing: the renderer's cairo context takes the failure's status.
C8_FailureSurfaced ==
  ImageFailed => cairo_status = gcall.image.status

\* C8 as amended: on a non-success status draw_png and draw_surface return
\* without handing the surface to cairo and without painting, and the cairo
\* context's status stays as it was: the failure is dropped silently.
C8_FailureDropped ==
  ImageFailed =>
    /\ \A i \in DOMAIN gtrace :
         gtrace[i].fn \notin {"cairo_set_source_surface", "cairo_paint"}
    /\ cairo_status = "SUCCESS"

\* a failed PNG load for an image that would be on screen
C8_Witness ==
  /\ gcall.fn = "draw_png"
  /\ gcall.image.status = "FILE_NOT_FOUND"
  /\ contains_point(get_visible_world, arg_p)
  /\ gtrace = <<C0("cairo_image_surface_create_from_png")>>
  /\ cairo_status = "SUCCESS"

TextShown == \E i \in DOMAIN gtrace : gtrace[i].fn = "cairo_show_text"

\* C9: draw_text(center, text, bounds) shows the text only when the box of its
\* world-scaled width and height centred on center lies inside bounds, that
\* is, only when the scaled width is at most 2 * min(center.x - left,
\* right - center.x) and the scaled height at most 2 * min(center.y - bottom,
\* top - center.y); nothing is shown when center is outside bounds.
C9_TextInsideBounds ==
  gcall.fn = "draw_text_rect" =>
    LET bl == SetMin({arg_q.x, arg_r.x})
        br == SetMax({arg_q.x, arg_r.x})
        bb == SetMin({arg_q.y, arg_r.y})
        bt == SetMax({arg_q.y, arg_r.y})
        sw == gcall.tw * camera.scale.x
        sh == gcall.th * camera.scale.y
        outside == \/ arg_p.x < bl \/ arg_p.x > br
                   \/ arg_p.y < bb \/ arg_p.y > bt
    IN  /\ TextShown =>
             /\ 2 * arg_p.x - sw >= 2 * bl
             /\ 2 * arg_p.x + sw <= 2 * br
             /\ 2 * arg_p.y - sh >= 2 * bb
             /\ 2 * arg_p.y + sh <= 2 * bt
             /\ sw <= 2 * SetMin({arg_p.x - bl, br - arg_p.x})
             /\ sh <= 2 * SetMin({arg_p.y - bb, bt - arg_p.y})
        /\ outside => ~TextShown

\* a text that fits exactly: its box reaches the right edge of bounds, which
\* were given with their corners in reverse order
C9_Witness ==
  /\ gcall.fn = "draw_text_rect"
  /\ TextShown
  /\ gcall.tw > 0
  /\ arg_q.x > arg_r.x
  /\ 2 * arg_p.x + gcall.tw * camera.scale.x = 2 * arg_q.x
  /\ arg_p.x - arg_r.x >= arg_q.x - arg_p.x

====
